---- MODULE Spec2Model ----
(***************************************************************************)
(* A model of ArchitectCommand (packages/angular/cli/models/               *)
(* architect-command.ts): one invocation of an architect command, from     *)
(* initialize() to the end of run().                                       *)
(*                                                                         *)
(* Strings that the code takes apart (the target specifier, split on ':',  *)
(* and the trailing tokens, split on '=') are sequences of chunks, where   *)
(* the separators ":" and "=" and the flag prefix "--" are chunks of their *)
(* own; every other string is a TLA+ string. Text() turns the first into   *)
(* the second.                                                             *)
(***************************************************************************)
EXTENDS Integers, Sequences, FiniteSets, TLC

VARIABLES
    workspace,              \* this.workspace (with the architect host's view of it)
    target,                 \* this.target: the command's fixed target name
    multiTarget,            \* this.multiTarget
    options,                \* the options object handed to initialize and run
    pc,                     \* position in initialize / run
    targetProjectNames,     \* initialize: projects that declare the target
    commandLeftovers,       \* initialize: options['--'] as read at line 99
    builderNames,           \* initialize: builders seen by the loop
    leftoverMap,            \* initialize: name -> {optionDefs, parsedOptions}
    potentialProjectNames,  \* initialize: the narrowed candidate set
    idx,                    \* initialize: position of the loop over candidates
    projectName,            \* initialize: the local projectName
    initReturn,             \* what initialize returned
    targetSpec,             \* runArchitectTarget: the target specifier
    queue,                  \* runArchitectTarget: projects the loop runs
    runIdx,                 \* runArchitectTarget: position of the loop
    singleRun,              \* runArchitectTarget: TRUE in the else branch
    result,                 \* runArchitectTarget: the aggregated result
    handles,                \* the architect's runs, in scheduling order
    started,                \* projects for which runSingleTarget was entered
    failed,                 \* projects whose runSingleTarget did not return 0
    runReturn,              \* what run returned
    caught,                 \* TRUE once the catch of runArchitectTarget ran
    resolveCalls,           \* the builders resolveBuilder was called for
    log                     \* logger.fatal / logger.error messages, in order

vars == <<workspace, target, multiTarget, options, pc, targetProjectNames,
          commandLeftovers, builderNames, leftoverMap, potentialProjectNames,
          idx, projectName, initReturn, targetSpec, queue, runIdx, singleRun,
          result, handles, started, failed, runReturn, caught, resolveCalls,
          log>>

envVars == <<workspace, target, multiTarget>>
initVars == <<targetProjectNames, commandLeftovers, builderNames, leftoverMap,
              potentialProjectNames, idx, projectName, initReturn>>
runVars == <<targetSpec, queue, runIdx, singleRun, result, handles, started,
             failed, runReturn, caught>>

----------------------------------------------------------------------------
(* Bounds of the model. *)

\* longest trailing token list drawn freely from TokenAlphabet
MaxTokens == 2
\* longest target specifier, in chunks
MaxSpecChunks == 5

----------------------------------------------------------------------------
(* JavaScript values. *)

\* the value undefined, where a string is expected
Undefined == "<undefined>"
\* the value undefined, where a chunked string is expected
UndefinedStr == <<Undefined>>

Falsy(s) == s = Undefined \/ s = ""
Truthy(s) == ~Falsy(s)

RECURSIVE Text(_)
\* the string a chunk sequence spells
Text(s) == IF s = <<>> THEN "" ELSE Head(s) \o Text(Tail(s))

\* String.prototype.indexOf on chunks: the first position of sep, 0 if none
FirstOf(s, sep) ==
    IF \E i \in 1..Len(s) : s[i] = sep
    THEN CHOOSE i \in 1..Len(s) : s[i] = sep /\ \A j \in 1..(i - 1) : s[j] # sep
    ELSE 0

RECURSIVE Split(_, _)
\* String.prototype.split(sep): the pieces between the separators
Split(s, sep) ==
    LET i == FirstOf(s, sep)
    IN IF i = 0 THEN <<s>>
       ELSE <<SubSeq(s, 1, i - 1)>> \o Split(SubSeq(s, i + 1, Len(s)), sep)

\* array destructuring: the i-th element, or undefined
Nth(parts, i) == IF i <= Len(parts) THEN Text(parts[i]) ELSE Undefined

----------------------------------------------------------------------------
(* _makeTargetSpecifier *)

MakeTargetSpecifierNoOverride(commandOptions, thisTarget) ==
    LET fromString == commandOptions.target # UndefinedStr
                      /\ Text(commandOptions.target) # ""
        parts == Split(commandOptions.target, ":")
        project == IF fromString THEN Nth(parts, 1) ELSE commandOptions.project
        tgt == IF fromString THEN Nth(parts, 2) ELSE thisTarget
        configuration ==
            IF fromString
            THEN Nth(parts, 3)
            ELSE IF Truthy(commandOptions.configuration)
                 THEN commandOptions.configuration
                 ELSE Undefined
    IN [project |-> IF Falsy(project) THEN "" ELSE project,
        configuration |-> IF Falsy(configuration) THEN "" ELSE configuration,
        target |-> IF Falsy(tgt) THEN "" ELSE tgt]

MakeTargetSpecifierDropsConfiguration(commandOptions, thisTarget) ==
    LET fromString == commandOptions.target # UndefinedStr
                      /\ Text(commandOptions.target) # ""
        parts == Split(commandOptions.target, ":")
        project == IF fromString THEN Nth(parts, 1) ELSE commandOptions.project
        tgt == IF fromString THEN Nth(parts, 2) ELSE thisTarget
        configuration ==
            IF fromString
            THEN IF Truthy(commandOptions.configuration)
                 THEN commandOptions.configuration
                 ELSE Nth(parts, 3)
            ELSE Undefined
    IN [project |-> IF Falsy(project) THEN "" ELSE project,
        configuration |-> IF Falsy(configuration) THEN "" ELSE configuration,
        target |-> IF Falsy(tgt) THEN "" ELSE tgt]

MakeTargetSpecifierIgnoresProject(commandOptions, thisTarget) ==
    LET fromString == commandOptions.target # UndefinedStr
                      /\ Text(commandOptions.target) # ""
        parts == Split(commandOptions.target, ":")
        project == IF fromString THEN Nth(parts, 1) ELSE Undefined
        tgt == IF fromString THEN Nth(parts, 2) ELSE thisTarget
        configuration ==
            IF fromString
            THEN IF Truthy(commandOptions.configuration)
                 THEN commandOptions.configuration
                 ELSE Nth(parts, 3)
            ELSE IF Truthy(commandOptions.configuration)
                 THEN "" \o commandOptions.configuration
                 ELSE Undefined
    IN [project |-> IF Falsy(project) THEN "" ELSE project,
        configuration |-> IF Falsy(configuration) THEN "" ELSE configuration,
        target |-> IF Falsy(tgt) THEN "" ELSE tgt]

\* _makeTargetSpecifier(commandOptions), with this.target as a parameter
MakeTargetSpecifier(commandOptions, thisTarget) ==
    LET fromString == commandOptions.target # UndefinedStr
                      /\ Text(commandOptions.target) # ""
        parts == Split(commandOptions.target, ":")
        project == IF fromString THEN Nth(parts, 1) ELSE commandOptions.project
        tgt == IF fromString THEN Nth(parts, 2) ELSE thisTarget
        \* in the else branch the local configuration is still undefined when
        \* the template string is built, so the prefix is always empty
        configuration ==
            IF fromString
            THEN IF Truthy(commandOptions.configuration)
                 THEN commandOptions.configuration
                 ELSE Nth(parts, 3)
            ELSE IF Truthy(commandOptions.configuration)
                 THEN "" \o commandOptions.configuration
                 ELSE Undefined
    IN [project |-> IF Falsy(project) THEN "" ELSE project,
        configuration |-> IF Falsy(configuration) THEN "" ELSE configuration,
        target |-> IF Falsy(tgt) THEN "" ELSE tgt]

----------------------------------------------------------------------------
(* The collaborators: the argument parser (models/parser.ts), the schema   *)
(* reader (utilities/json-schema.ts) and the architect host are not in the *)
(* sources at hand; they are modelled from their description.              *)

\* a token is a flag when it starts with the "--" chunk
IsFlag(tok) == Len(tok) >= 2 /\ tok[1] = "--"

\* the option name of a flag token: the text between "--" and the first "="
FlagName(tok) ==
    LET body == Tail(tok)
        i == FirstOf(body, "=")
    IN Text(IF i = 0 THEN body ELSE SubSeq(body, 1, i - 1))

\* the text after the first "=" of a flag token, undefined without "="
FlagValue(tok) ==
    LET body == Tail(tok)
        i == FirstOf(body, "=")
    IN IF i = 0 THEN Undefined ELSE Text(SubSeq(body, i + 1, Len(body)))

HasDef(optionDefs, name) == \E d \in optionDefs : d.name = name
DefOf(optionDefs, name) == CHOOSE d \in optionDefs : d.name = name

\* the value an option of the given type takes from a string, or undefined
Coerce(str, type) ==
    IF type = "boolean"
    THEN IF str \in {"true", "false"} THEN str
         ELSE IF str = "" THEN "true" ELSE Undefined
    ELSE IF str = Undefined THEN "" ELSE str

\* obj[k] = v on an object whose keys keep their insertion order
Assign(obj, k, v) ==
    IF \E i \in 1..Len(obj) : obj[i].k = k
    THEN [i \in 1..Len(obj) |-> IF obj[i].k = k THEN [k |-> k, v |-> v] ELSE obj[i]]
    ELSE Append(obj, [k |-> k, v |-> v])

RECURSIVE ParseFrom(_, _, _, _)
ParseFrom(args, optionDefs, obj, leftovers) ==
    IF args = <<>> THEN [options |-> obj, leftovers |-> leftovers]
    ELSE
      LET tok == Head(args)
          rest == Tail(args)
      IN IF ~IsFlag(tok) \/ ~HasDef(optionDefs, FlagName(tok))
         THEN ParseFrom(rest, optionDefs, obj, Append(leftovers, tok))
         ELSE
           LET def == DefOf(optionDefs, FlagName(tok))
               inline == FlagValue(tok)
           IN IF inline # Undefined
              THEN \* --name=value
                   IF Coerce(inline, def.type) = Undefined
                   THEN ParseFrom(rest, optionDefs, obj, Append(leftovers, tok))
                   ELSE ParseFrom(rest, optionDefs,
                                  Assign(obj, def.name, Coerce(inline, def.type)),
                                  leftovers)
              ELSE \* --name [value]: the next token is the value when it is
                   \* no flag and gives the option a value
                   IF rest # <<>> /\ ~IsFlag(Head(rest))
                      /\ Coerce(Text(Head(rest)), def.type) # Undefined
                   THEN ParseFrom(Tail(rest), optionDefs,
                                  Assign(obj, def.name,
                                         Coerce(Text(Head(rest)), def.type)),
                                  leftovers)
                   ELSE ParseFrom(rest, optionDefs,
                                  Assign(obj, def.name, Coerce("", def.type)),
                                  leftovers)

\* parseArguments(args, optionDefs): the structured options and the tokens
\* that bound to no declared option (the '--' entry; absent when empty)
ParseArguments(args, optionDefs) == ParseFrom(args, optionDefs, <<>>, <<>>)

BuilderNames == {"karma", "jest"}

\* parseJsonSchemaToOptions(registry, builderDesc.optionSchema)
OptionDefsOf(builderName) ==
    IF builderName = "karma"
    THEN {[name |-> "watch", type |-> "boolean"], [name |-> "name", type |-> "string"]}
    ELSE {[name |-> "watch", type |-> "boolean"]}

\* builderDesc.optionSchema.additionalProperties
AdditionalPropertiesOf(builderName) == builderName = "jest"

\* what resolveBuilder can do: return a description, fail with
\* MODULE_NOT_FOUND, or fail with another error
ResolveOutcomes == {"resolved", "MODULE_NOT_FOUND", "error"}

\* what a scheduled run's output can deliver: a result with success, a
\* result without, or a schema validation exception
RunOutcomes == {"success", "failure", "SchemaValidationException"}

----------------------------------------------------------------------------
(* The invocations the model starts from. *)

ProjectNames == <<"app", "lib", "e2e">>
Projects == {ProjectNames[i] : i \in 1..Len(ProjectNames)}

TokenAlphabet ==
    { <<"app">>, <<"lib">>,
      <<"--", "watch", "=", "false">>,
      <<"--", "foo", "=", "1">>,
      <<"--", "name">> }

RECURSIVE SeqsUpTo(_, _)
\* the sequences over S of length at most n
SeqsUpTo(S, n) ==
    IF n = 0 THEN {<<>>}
    ELSE LET shorter == SeqsUpTo(S, n - 1)
         IN shorter \cup {Append(q, x) : q \in shorter, x \in S}

\* longer token lists, in which a project name occurs more than once or
\* after an option that takes a value
LongTokenLists ==
    { << <<"lib">>, <<"--", "watch", "=", "false">>, <<"lib">> >>,
      << <<"--", "name">>, <<"lib">>, <<"--", "foo", "=", "1">>, <<"lib">> >>,
      << <<"--", "name">>, <<"lib">>, <<"lib">> >>,
      << <<"--", "watch", "=", "false">>, <<"app">>, <<"lib">> >> }

TokenLists == SeqsUpTo(TokenAlphabet, MaxTokens) \cup LongTokenLists

\* token lists for the invocations that name their project
FewTokenLists ==
    { <<>>,
      << <<"--", "watch", "=", "false">> >>,
      << <<"--", "foo", "=", "1">> >>,
      << <<"--", "foo", "=", "1">>, <<"app">> >> }

BuilderAssignments ==
    { [p \in Projects |-> "karma"],
      [p \in Projects |-> IF p = "lib" THEN "jest" ELSE "karma"] }

\* a workspace: the projects in their stored order, the targets each
\* declares, the builder of each project's target, the default project
Workspaces(defaults) ==
    { [loaded |-> TRUE,
       projects |-> ProjectNames,
       targets |-> [p \in Projects |-> IF p \in d THEN {"test"} ELSE {}],
       builder |-> b,
       defaultProject |-> dp] :
      d \in SUBSET Projects, b \in BuilderAssignments, dp \in defaults }

NoWorkspace ==
    [loaded |-> FALSE, projects |-> <<>>, targets |-> <<>>, builder |-> <<>>,
     defaultProject |-> Undefined]

OptionsOf(project, configuration, tgt, help, tokens) ==
    [project |-> project, configuration |-> configuration, target |-> tgt,
     help |-> help, leftovers |-> tokens]

\* the program before initialize is called
Idle ==
    /\ pc = "initialize"
    /\ targetProjectNames = <<>>
    /\ commandLeftovers = <<>>
    /\ builderNames = {}
    /\ leftoverMap = <<>>
    /\ potentialProjectNames = {}
    /\ idx = 0
    /\ projectName = Undefined
    /\ initReturn = "pending"
    /\ targetSpec = [project |-> "", configuration |-> "", target |-> ""]
    /\ queue = <<>>
    /\ runIdx = 0
    /\ singleRun = FALSE
    /\ result = 0
    /\ handles = <<>>
    /\ started = <<>>
    /\ failed = {}
    /\ runReturn = "pending"
    /\ caught = FALSE
    /\ resolveCalls = {}
    /\ log = <<>>

\* a fixed-target command without --project: the trailing tokens decide
InitUnnamed ==
    /\ workspace \in Workspaces({Undefined, "app", "lib"})
    /\ target = "test"
    /\ multiTarget \in BOOLEAN
    /\ \E help \in BOOLEAN, tokens \in TokenLists :
          options = OptionsOf(Undefined, Undefined, UndefinedStr, help, tokens)

\* a fixed-target command with --project
InitNamed ==
    /\ workspace \in Workspaces({Undefined})
    /\ target = "test"
    /\ multiTarget \in BOOLEAN
    /\ \E project \in {"lib", "ghost"}, configuration \in {Undefined, "ci"},
          tokens \in FewTokenLists :
          options = OptionsOf(project, configuration, UndefinedStr, FALSE, tokens)

\* a command without a fixed target (ng run): the target option decides
InitRun ==
    /\ workspace \in Workspaces({Undefined})
    /\ target = Undefined
    /\ multiTarget = FALSE
    /\ \E project \in {Undefined, "ghost"}, help \in BOOLEAN,
          tgt \in { UndefinedStr, <<"test">>, <<"lib", ":", "test">>,
                    <<"ghost", ":", "test">>, <<"lib", ":", "test", ":", "ci">> },
          tokens \in FewTokenLists :
          options = OptionsOf(project, Undefined, tgt, help, tokens)

\* a command run outside a workspace
InitOutside ==
    /\ workspace = NoWorkspace
    /\ target \in {"test", Undefined}
    /\ multiTarget \in BOOLEAN
    /\ \E project \in {Undefined, "lib"}, tokens \in FewTokenLists :
          options = OptionsOf(project, Undefined, UndefinedStr, FALSE, tokens)

Init == Idle /\ (InitUnnamed \/ InitNamed \/ InitRun \/ InitOutside)

----------------------------------------------------------------------------
(* initialize *)

InWorkspace(ws, name) == \E i \in 1..Len(ws.projects) : ws.projects[i] = name
Includes(names, name) == \E i \in 1..Len(names) : names[i] = name
AsSet(names) == {names[i] : i \in 1..Len(names)}

\* the projects of the workspace that declare the target, in stored order
TargetProjectNamesOf(ws, tgt) ==
    SelectSeq(ws.projects, LAMBDA p : tgt \in ws.targets[p])

\* architectHost.getBuilderNameForTarget: throws for a project the
\* workspace does not hold or a target the project does not declare
HasBuilderFor(ws, project, tgt) ==
    ws.loaded /\ InWorkspace(ws, project) /\ tgt \in ws.targets[project]
BuilderNameFor(ws, project) == ws.builder[project]

NeverNoCandidates(names) == FALSE

\* targetProjectNames.length === 0
NoCandidates(names) == Len(names) = 0

\* what the caller does with initialize's return value: an exit code ends
\* the invocation, a help request prints help, anything else calls run
AfterInitialize(ret, help) ==
    IF ret = "void" /\ ~help THEN "run" ELSE "done"

\* the part of initialize before the loop over the candidates
InitializeStart ==
    /\ pc = "initialize"
    /\ UNCHANGED <<envVars, options, runVars, builderNames, leftoverMap,
                   resolveCalls>>
    /\ IF ~workspace.loaded
       THEN /\ log' = Append(log, "A workspace is required for this command.")
            /\ initReturn' = "exit1"
            /\ pc' = "done"
            /\ UNCHANGED <<targetProjectNames, commandLeftovers,
                           potentialProjectNames, idx, projectName>>
       ELSE IF Falsy(target)
       THEN /\ UNCHANGED <<targetProjectNames, commandLeftovers,
                           potentialProjectNames, idx, projectName>>
            /\ IF options.help
               THEN /\ initReturn' = "void"
                    /\ pc' = AfterInitialize("void", TRUE)
                    /\ UNCHANGED log
               ELSE LET specifier == MakeTargetSpecifier(options, target)
                    IN IF Falsy(specifier.project) \/ Falsy(specifier.target)
                       THEN /\ log' = Append(log,
                                   "Cannot determine project or target for command.")
                            /\ initReturn' = "exit1"
                            /\ pc' = "done"
                       ELSE /\ initReturn' = "void"
                            /\ pc' = AfterInitialize("void", FALSE)
                            /\ UNCHANGED log
       ELSE IF Truthy(options.project) /\ ~InWorkspace(workspace, options.project)
       THEN /\ log' = Append(log,
                   "Project '" \o options.project \o "' does not exist.")
            /\ initReturn' = "exit1"
            /\ pc' = "done"
            /\ projectName' = options.project
            /\ UNCHANGED <<targetProjectNames, commandLeftovers,
                           potentialProjectNames, idx>>
       ELSE LET names == TargetProjectNamesOf(workspace, target)
            IN /\ projectName' = options.project
               /\ commandLeftovers' = options.leftovers
               /\ targetProjectNames' = names
               /\ IF Truthy(options.project) /\ ~Includes(names, options.project)
                  THEN \* onMissingTarget(projectName)
                       /\ log' = Append(log, "Project '" \o options.project
                                   \o "' does not support the '" \o target
                                   \o "' target.")
                       /\ initReturn' = "exit1"
                       /\ pc' = "done"
                       /\ UNCHANGED <<potentialProjectNames, idx>>
                  ELSE IF NoCandidates(names)
                  THEN \* onMissingTarget()
                       /\ log' = Append(log, "No projects support the '"
                                   \o target \o "' target.")
                       /\ initReturn' = "exit1"
                       /\ pc' = "done"
                       /\ UNCHANGED <<potentialProjectNames, idx>>
                  ELSE IF Falsy(options.project) /\ Len(options.leftovers) > 0
                  THEN /\ potentialProjectNames' = AsSet(names)
                       /\ idx' = 1
                       /\ pc' = "disambiguate"
                       /\ UNCHANGED <<initReturn, log>>
                  ELSE /\ pc' = "fallback"
                       /\ UNCHANGED <<potentialProjectNames, idx, initReturn, log>>

NarrowOverwrites(potential, builderLeftovers) ==
    {Text(builderLeftovers[i]) : i \in 1..Len(builderLeftovers)} \cap Projects

\* the names among a builder's leftovers that are still candidates
Narrow(potential, builderLeftovers) ==
    {Text(builderLeftovers[i]) : i \in 1..Len(builderLeftovers)} \cap potential

\* leftoverMap.set(name, info)
MapSet(map, name, info) ==
    [n \in (DOMAIN map) \cup {name} |-> IF n = name THEN info ELSE map[n]]

\* one pass of the loop over the candidates, for targetProjectNames[idx]
DisambiguateStep ==
    /\ pc = "disambiguate"
    /\ idx <= Len(targetProjectNames)
    /\ UNCHANGED <<envVars, options, runVars, targetProjectNames,
                   commandLeftovers, projectName>>
    /\ LET name == targetProjectNames[idx]
           builderName == BuilderNameFor(workspace, name)
           optionDefs == OptionDefsOf(builderName)
           parsedOptions == ParseArguments(commandLeftovers, optionDefs)
       IN /\ builderNames' = IF multiTarget THEN builderNames \cup {builderName}
                             ELSE builderNames
          /\ resolveCalls' = resolveCalls \cup {builderName}
          /\ \E outcome \in ResolveOutcomes :
               CASE outcome = "MODULE_NOT_FOUND" ->
                      /\ log' = Append(log, "Could not find the '" \o builderName
                                  \o "' builder's node package.")
                      /\ initReturn' = "exit1"
                      /\ pc' = "done"
                      /\ UNCHANGED <<leftoverMap, potentialProjectNames, idx>>
                 [] outcome = "error" ->
                      /\ initReturn' = "throw"
                      /\ pc' = "done"
                      /\ UNCHANGED <<leftoverMap, potentialProjectNames, idx, log>>
                 [] outcome = "resolved" ->
                      /\ leftoverMap' = MapSet(leftoverMap, name,
                             [optionDefs |-> optionDefs,
                              parsedOptions |-> parsedOptions])
                      /\ potentialProjectNames' =
                             Narrow(potentialProjectNames, parsedOptions.leftovers)
                      /\ idx' = idx + 1
                      /\ UNCHANGED <<initReturn, pc, log>>

\* Array.prototype.indexOf(name, from) over the token list, positions
\* counted from 0 as in the code; -1 when there is none
IndexOf(tokens, name, from) ==
    LET hits == {k \in from..(Len(tokens) - 1) : Text(tokens[k + 1]) = name}
    IN IF hits = {} THEN -1
       ELSE CHOOSE k \in hits : \A h \in hits : k <= h

RECURSIVE LocationsFrom(_, _, _, _)
LocationsFrom(tokens, name, i, locations) ==
    IF ~(i < Len(tokens)) THEN locations
    ELSE LET j == IndexOf(tokens, name, i + 1)
         IN IF j = -1 THEN locations
            ELSE LocationsFrom(tokens, name, j, Append(locations, j))

\* the positions (from 0) the while loop collects: i starts at 0 and every
\* search starts at i + 1
Locations(tokens, name) == LocationsFrom(tokens, name, 0, <<>>)

\* tempLeftovers.splice(location, 1)
Splice(tokens, location) ==
    SubSeq(tokens, 1, location) \o SubSeq(tokens, location + 2, Len(tokens))

\* JSON.stringify(a) === JSON.stringify(b) on two option objects: the same
\* keys, in the same order, with the same values
SameJson(a, b) == a = b

StripWithoutCheck(tokens, name, optionInfo) ==
    LET locations == Locations(tokens, name)
    IN IF locations = <<>> THEN tokens ELSE Splice(tokens, locations[1])

\* the token list options['--'] holds after the removal loop
StripProjectName(tokens, name, optionInfo) ==
    LET locations == Locations(tokens, name)
        stable(location) ==
            SameJson(optionInfo.parsedOptions.options,
                     ParseArguments(Splice(tokens, location),
                                    optionInfo.optionDefs).options)
        good == {n \in 1..Len(locations) : stable(locations[n])}
    IN IF good = {} THEN tokens
       ELSE Splice(tokens, locations[CHOOSE n \in good : \A m \in good : n <= m])

BuilderConflictWhateverName(name, multi, builders) ==
    multi /\ Cardinality(builders) > 1

\* whether overrides would be broadcast to builders that differ
BuilderConflict(name, multi, builders) ==
    Falsy(name) /\ multi /\ Cardinality(builders) > 1

\* the part of initialize between the loop and the fallback rules
DisambiguateEnd ==
    /\ pc = "disambiguate"
    /\ idx > Len(targetProjectNames)
    /\ UNCHANGED <<envVars, runVars, targetProjectNames, commandLeftovers,
                   builderNames, leftoverMap, potentialProjectNames, idx,
                   resolveCalls>>
    /\ LET resolved == Cardinality(potentialProjectNames) = 1
           name == IF resolved
                   THEN CHOOSE n \in potentialProjectNames : TRUE
                   ELSE projectName
       IN /\ projectName' = name
          /\ options' =
               IF resolved /\ name \in DOMAIN leftoverMap
               THEN [options EXCEPT !.leftovers =
                        StripProjectName(commandLeftovers, name, leftoverMap[name])]
               ELSE options
          /\ IF BuilderConflict(name, multiTarget, builderNames)
             THEN /\ log' = Append(log,
                         "Architect commands with command line overrides cannot target different builders.")
                  /\ initReturn' = "exit1"
                  /\ pc' = "done"
             ELSE /\ pc' = "fallback"
                  /\ UNCHANGED <<initReturn, log>>

ChooseFirst(names, defaultProjectName) ==
    IF Len(names) >= 1 THEN names[1]
    ELSE IF Truthy(defaultProjectName) /\ Includes(names, defaultProjectName)
         THEN defaultProjectName
         ELSE Undefined

ChooseDefaultUnchecked(names, defaultProjectName) ==
    IF Truthy(defaultProjectName) THEN defaultProjectName
    ELSE IF Len(names) = 1 THEN names[1]
         ELSE Undefined

\* the project a single-target command falls back to, or undefined
ChooseProject(names, defaultProjectName) ==
    IF Len(names) = 1 THEN names[1]
    ELSE IF Truthy(defaultProjectName) /\ Includes(names, defaultProjectName)
         THEN defaultProjectName
         ELSE Undefined

\* the fallback rules of a single-target command, and options.project
Fallback ==
    /\ pc = "fallback"
    /\ UNCHANGED <<envVars, runVars, targetProjectNames, commandLeftovers,
                   builderNames, leftoverMap, potentialProjectNames, idx,
                   resolveCalls>>
    /\ LET name == IF Falsy(projectName) /\ ~multiTarget
                   THEN ChooseProject(targetProjectNames, workspace.defaultProject)
                   ELSE projectName
       IN IF Falsy(projectName) /\ ~multiTarget /\ name = Undefined
          THEN /\ UNCHANGED <<options, projectName>>
               /\ IF options.help
                  THEN /\ initReturn' = "void"
                       /\ pc' = AfterInitialize("void", TRUE)
                       /\ UNCHANGED log
                  ELSE /\ log' = Append(log,
                              "Cannot determine project or target for command.")
                       /\ initReturn' = "exit1"
                       /\ pc' = "done"
          ELSE /\ projectName' = name
               /\ options' = [options EXCEPT !.project = name]
               /\ pc' = "describe"
               /\ UNCHANGED <<initReturn, log>>

\* the end of initialize: the builder whose options the command describes
Describe ==
    /\ pc = "describe"
    /\ UNCHANGED <<envVars, options, runVars, targetProjectNames,
                   commandLeftovers, builderNames, leftoverMap,
                   potentialProjectNames, idx, projectName>>
    /\ LET project == IF Truthy(projectName) THEN projectName
                      ELSE IF Len(targetProjectNames) > 0
                           THEN targetProjectNames[1] ELSE ""
       IN IF ~HasBuilderFor(workspace, project, target)
          THEN /\ initReturn' = "throw"
               /\ pc' = "done"
               /\ UNCHANGED <<resolveCalls, log>>
          ELSE
            LET builderConf == BuilderNameFor(workspace, project)
            IN /\ resolveCalls' = resolveCalls \cup {builderConf}
               /\ \E outcome \in ResolveOutcomes :
                    CASE outcome = "MODULE_NOT_FOUND" ->
                           /\ log' = Append(log, "Could not find the '"
                                       \o builderConf \o "' builder's node package.")
                           /\ initReturn' = "exit1"
                           /\ pc' = "done"
                      [] outcome = "error" ->
                           /\ initReturn' = "throw"
                           /\ pc' = "done"
                           /\ UNCHANGED log
                      [] outcome = "resolved" ->
                           /\ initReturn' = "void"
                           /\ pc' = AfterInitialize("void", options.help)
                           /\ UNCHANGED log

----------------------------------------------------------------------------
(* run *)

\* getProjectNamesByTarget: the projects to run, or the Error it throws
GetProjectNamesByTarget(ws, targetName, multi) ==
    LET all == TargetProjectNamesOf(ws, targetName)
    IN IF multi THEN [throws |-> FALSE, names |-> all]
       ELSE IF Truthy(ws.defaultProject) /\ Includes(all, ws.defaultProject)
       THEN [throws |-> FALSE, names |-> <<ws.defaultProject>>]
       ELSE IF Len(all) = 1 THEN [throws |-> FALSE, names |-> all]
       ELSE [throws |-> TRUE, names |-> <<>>]

ExitOf(code) == IF code = 0 THEN "exit0" ELSE "exit1"

\* a | b on exit codes
BitOr(a, b) == IF a = 1 \/ b = 1 THEN 1 ELSE 0

\* result |= code
Aggregate(res, code) == BitOr(res, code)

LoopStopsOnFailure(code, i, n) == i < n /\ code = 0

\* whether the for-of loop has another project after position i of n
LoopContinues(code, i, n) == i < n

\* run() and the start of runArchitectTarget: the target specifier and the
\* projects to run
RunArchitectTarget ==
    /\ pc = "run"
    /\ UNCHANGED <<envVars, options, initVars, result, handles, started,
                   failed, caught, resolveCalls, log>>
    /\ LET spec == MakeTargetSpecifier(options, target)
           byTarget == GetProjectNamesByTarget(workspace, target, multiTarget)
       IN /\ targetSpec' = spec
          /\ IF Falsy(spec.project) /\ Truthy(target)
             THEN /\ singleRun' = FALSE
                  /\ queue' = byTarget.names
                  /\ IF byTarget.throws
                     THEN /\ runReturn' = "throw"
                          /\ pc' = "done"
                          /\ runIdx' = 0
                     ELSE IF Len(byTarget.names) = 0
                     THEN /\ runReturn' = ExitOf(result)
                          /\ pc' = "done"
                          /\ runIdx' = 0
                     ELSE /\ pc' = "runSingleTarget"
                          /\ runIdx' = 1
                          /\ UNCHANGED runReturn
             ELSE /\ singleRun' = TRUE
                  /\ queue' = <<spec.project>>
                  /\ runIdx' = 1
                  /\ pc' = "runSingleTarget"
                  /\ UNCHANGED runReturn

\* runSingleTarget returns code to runArchitectTarget, which returns it or
\* adds it to result and goes on with the loop
ReturnFromSingle(code) ==
    /\ failed' = IF code = 0 THEN failed ELSE failed \cup {queue[runIdx]}
    /\ IF singleRun
       THEN /\ runReturn' = ExitOf(code)
            /\ pc' = "done"
            /\ UNCHANGED <<result, runIdx>>
       ELSE /\ result' = Aggregate(result, code)
            /\ IF LoopContinues(code, runIdx, Len(queue))
               THEN /\ runIdx' = runIdx + 1
                    /\ pc' = "runSingleTarget"
                    /\ UNCHANGED runReturn
               ELSE /\ runReturn' = ExitOf(result')
                    /\ pc' = "done"
                    /\ UNCHANGED runIdx

\* an Error that is no SchemaValidationException leaves runArchitectTarget
ThrowFromRun ==
    /\ runReturn' = "throw"
    /\ pc' = "done"
    /\ UNCHANGED <<result, runIdx, failed>>

\* additional.split(/=/)[0]
OptionOfToken(additional) == Text(Split(additional, "=")[1])

RECURSIVE UnknownOptions(_)
\* the fatal messages for the leftover tokens, in order
UnknownOptions(additionals) ==
    IF additionals = <<>> THEN <<>>
    ELSE <<"Unknown option: '" \o OptionOfToken(Head(additionals)) \o "'">>
         \o UnknownOptions(Tail(additionals))

RejectsNothing(leftovers, allowAdditionalProperties) == FALSE

\* overrides['--'] && !allowAdditionalProperties
RejectsLeftovers(leftovers, allowAdditionalProperties) ==
    Len(leftovers) > 0 /\ ~allowAdditionalProperties

\* runSingleTarget up to scheduleTarget, for the project queue[runIdx]
RunSingleTarget ==
    /\ pc = "runSingleTarget"
    /\ UNCHANGED <<envVars, options, initVars, targetSpec, queue, singleRun,
                   caught>>
    /\ started' = Append(started, queue[runIdx])
    /\ LET project == queue[runIdx]
       IN IF ~HasBuilderFor(workspace, project, targetSpec.target)
          THEN ThrowFromRun /\ UNCHANGED <<handles, resolveCalls, log>>
          ELSE
            LET builderConf == BuilderNameFor(workspace, project)
                overrides == ParseArguments(options.leftovers,
                                            OptionDefsOf(builderConf))
            IN /\ resolveCalls' = resolveCalls \cup {builderConf}
               /\ \E outcome \in ResolveOutcomes :
                 CASE outcome = "MODULE_NOT_FOUND" ->
                        /\ log' = Append(log, "Could not find the '"
                                    \o builderConf \o "' builder's node package.")
                        /\ ReturnFromSingle(1)
                        /\ UNCHANGED handles
                   [] outcome = "error" ->
                        ThrowFromRun /\ UNCHANGED <<handles, log>>
                   [] outcome = "resolved" ->
                        IF RejectsLeftovers(overrides.leftovers,
                                            AdditionalPropertiesOf(builderConf))
                        THEN /\ log' = log \o UnknownOptions(overrides.leftovers)
                             /\ ReturnFromSingle(1)
                             /\ UNCHANGED handles
                        ELSE /\ handles' = Append(handles,
                                    [project |-> project,
                                     overrides |-> overrides,
                                     state |-> "running",
                                     success |-> FALSE])
                             /\ pc' = "output"
                             /\ UNCHANGED <<result, runIdx, failed, runReturn, log>>

\* the last run, with its output delivered
HandleDelivered(h, success) == [h EXCEPT !.state = "delivered", !.success = success]

HandleLeftRunning(h) == h

\* run.stop()
HandleStopped(h) == [h EXCEPT !.state = "stopped"]

\* await run.output.toPromise(): a result, or a rejection that the catch of
\* runArchitectTarget turns into exit code 1
RunOutput ==
    /\ pc = "output"
    /\ UNCHANGED <<envVars, options, initVars, targetSpec, queue, singleRun,
                   started, resolveCalls>>
    /\ \E outcome \in RunOutcomes :
         IF outcome = "SchemaValidationException"
         THEN /\ log' = Append(log, "Schema validation failed.")
              /\ failed' = failed \cup {queue[runIdx]}
              /\ runReturn' = "exit1"
              /\ caught' = TRUE
              /\ pc' = "done"
              /\ UNCHANGED <<result, runIdx, handles>>
         ELSE /\ handles' = [handles EXCEPT ![Len(handles)] =
                                HandleDelivered(@, outcome = "success")]
              /\ pc' = "stop"
              /\ UNCHANGED <<result, runIdx, failed, runReturn, caught, log>>

\* await run.stop() and the end of runSingleTarget
RunStop ==
    /\ pc = "stop"
    /\ UNCHANGED <<envVars, options, initVars, targetSpec, queue, singleRun,
                   started, caught, resolveCalls>>
    /\ LET h == handles[Len(handles)]
       IN /\ handles' = [handles EXCEPT ![Len(handles)] = HandleStopped(@)]
          /\ log' = IF h.success THEN log ELSE Append(log, "Builder failed.")
          /\ ReturnFromSingle(IF h.success THEN 0 ELSE 1)

Next ==
    \/ InitializeStart
    \/ DisambiguateStep
    \/ DisambiguateEnd
    \/ Fallback
    \/ Describe
    \/ RunArchitectTarget
    \/ RunSingleTarget
    \/ RunOutput
    \/ RunStop

Spec == Init /\ [][Next]_vars

----------------------------------------------------------------------------
(* _makeTargetSpecifier on its own, over every target option of a few      *)
(* chunks.                                                                 *)

SpecChunks == {"app", "build", "production", ":"}

InitSpecifier ==
    /\ Idle
    /\ workspace = NoWorkspace
    /\ target \in {Undefined, "test"}
    /\ multiTarget = FALSE
    /\ \E project \in {Undefined, "lib"}, configuration \in {Undefined, "staging"},
          tgt \in SeqsUpTo(SpecChunks, MaxSpecChunks) \cup {UndefinedStr} :
          options = OptionsOf(project, configuration, tgt, FALSE, <<>>)

\* a call of _makeTargetSpecifier(options)
MakeSpecifier ==
    /\ pc = "initialize"
    /\ targetSpec' = MakeTargetSpecifier(options, target)
    /\ pc' = "done"
    /\ UNCHANGED <<envVars, options, initVars, queue, runIdx, singleRun, result,
                   handles, started, failed, runReturn, caught, resolveCalls, log>>

NextSpecifier == MakeSpecifier

SpecTarget == InitSpecifier /\ [][NextSpecifier]_vars

----------------------------------------------------------------------------
(* Claims about _makeTargetSpecifier, checked under SpecTarget. *)

\* the discrete option as the result holds it: '' for a missing one
OrEmpty(s) == IF Falsy(s) THEN "" ELSE s

\* the target option is absent: undefined or the empty string
TargetAbsent == options.target = UndefinedStr \/ options.target = <<>>

\* the target option has no colon form: absent, or a string without ':'
TargetWithoutColon ==
    options.target = UndefinedStr
    \/ \A i \in 1..Len(options.target) : options.target[i] # ":"

FromDiscreteOptions ==
    /\ targetSpec.project = OrEmpty(options.project)
    /\ targetSpec.configuration = OrEmpty(options.configuration)
    /\ targetSpec.target = OrEmpty(target)

\* C9 as stated: for a target option that is absent or a string without
\* ':', project and configuration are the discrete options and target is
\* the command's fixed target name.
C9_NoColonFromDiscrete ==
    (pc = "done" /\ TargetWithoutColon) => FromDiscreteOptions

\* C9, amended: for an absent target option (undefined or empty), project
\* and configuration are the discrete options and target is the command's
\* fixed target name; a non-empty string without ':' is taken as the
\* project, with an empty target.
C9_AbsentFromDiscrete ==
    /\ (pc = "done" /\ TargetAbsent) => FromDiscreteOptions
    /\ (pc = "done" /\ TargetWithoutColon /\ ~TargetAbsent) =>
          /\ targetSpec.project = Text(options.target)
          /\ targetSpec.target = ""
          /\ targetSpec.configuration = OrEmpty(options.configuration)

C9_Witness ==
    /\ pc = "done"
    /\ options.target = UndefinedStr
    /\ options.project = "lib"
    /\ options.configuration = "staging"
    /\ target = "test"
    /\ targetSpec = [project |-> "lib", configuration |-> "staging",
                     target |-> "test"]

\* the target option is 'project:target:configuration', each part one chunk
ThreePartTarget ==
    /\ options.target # UndefinedStr
    /\ Len(options.target) = 5
    /\ \A i \in {1, 3, 5} : options.target[i] # ":"
    /\ \A i \in {2, 4} : options.target[i] = ":"

\* C10: a target option 'project:target:configuration' is split into the
\* triple, and a configuration option, when given, replaces the
\* configuration parsed from the string ('app:build:production' with
\* configuration 'staging' gives app, build, staging); in every result
\* project and configuration are strings, '' when missing, never undefined.
C10_TripleWithOverride ==
    pc = "done" =>
      /\ ThreePartTarget =>
           /\ targetSpec.project = options.target[1]
           /\ targetSpec.target = options.target[3]
           /\ targetSpec.configuration =
                 IF Truthy(options.configuration) THEN options.configuration
                 ELSE options.target[5]
      /\ (options.target = <<"app", ":", "build", ":", "production">>
          /\ options.configuration = "staging") =>
             targetSpec = [project |-> "app", target |-> "build",
                           configuration |-> "staging"]
      /\ targetSpec.project # Undefined
      /\ targetSpec.configuration # Undefined
      /\ targetSpec.target # Undefined

C10_Witness ==
    /\ pc = "done"
    /\ options.target = <<"app", ":", "build", ":", "production">>
    /\ options.configuration = "staging"
    /\ targetSpec = [project |-> "app", target |-> "build",
                     configuration |-> "staging"]

----------------------------------------------------------------------------
(* Claims about initialize and run, checked under Spec. *)

LibToken == <<"lib">>
AppToken == <<"app">>
WatchFalse == <<"--", "watch", "=", "false">>
FooOne == <<"--", "foo", "=", "1">>
NameFlag == <<"--", "name">>

Candidates == TargetProjectNamesOf(workspace, target)
InLog(message) == \E i \in 1..Len(log) : log[i] = message
ConflictMessage ==
    "Architect commands with command line overrides cannot target different builders."

\* the loop over the candidates ran to its end and left one project
DisambiguationResolved ==
    /\ pc \notin {"initialize", "disambiguate"}
    /\ idx > Len(targetProjectNames)
    /\ idx > 0
    /\ Cardinality(potentialProjectNames) = 1

ResolvedName == CHOOSE n \in potentialProjectNames : TRUE

\* the token list with the first occurrence of name removed whose removal
\* leaves the structured options unchanged, every position tried
FirstStableRemoved(tokens, name, optionInfo) ==
    LET stable == {k \in 0..(Len(tokens) - 1) :
                     /\ Text(tokens[k + 1]) = name
                     /\ ParseArguments(Splice(tokens, k),
                                       optionInfo.optionDefs).options
                        = optionInfo.parsedOptions.options}
    IN IF stable = {} THEN tokens
       ELSE Splice(tokens, CHOOSE k \in stable : \A h \in stable : k <= h)

\* C1 as stated: when disambiguation resolves a project, every position of
\* the trailing tokens that holds its name is tried, the first included,
\* and the first occurrence whose removal leaves the parsed options
\* unchanged is removed from the overrides; 'lib --watch=false' over the
\* candidates app and lib resolves lib and runs it with watch = false only.
C1_FirstOccurrenceRemoved ==
    /\ DisambiguationResolved =>
          /\ projectName = ResolvedName
          /\ options.leftovers =
                FirstStableRemoved(commandLeftovers, ResolvedName,
                                   leftoverMap[ResolvedName])
    /\ (/\ DisambiguationResolved
        /\ targetProjectNames = <<"app", "lib">>
        /\ commandLeftovers = <<LibToken, WatchFalse>>) =>
          /\ projectName = "lib"
          /\ options.leftovers = <<WatchFalse>>
          /\ \A i \in 1..Len(handles) :
                /\ handles[i].project = "lib"
                /\ handles[i].overrides =
                      [options |-> <<[k |-> "watch", v |-> "false"]>>,
                       leftovers |-> <<>>]

\* the loop of runArchitectTarget over the candidates of a multi-target
\* command has ended
MultiRunEnded ==
    /\ multiTarget
    /\ ~singleRun
    /\ queue # <<>>
    /\ pc = "done"
    /\ runReturn # "pending"

IsPrefix(a, b) == Len(a) <= Len(b) /\ a = SubSeq(b, 1, Len(a))

\* C2 as stated: a multi-target command without a resolved project runs
\* every candidate exactly once whatever the failure of an earlier run, and
\* the exit code it returns is 1 exactly when a run failed.
C2_AllRunWhateverFailure ==
    (MultiRunEnded /\ runReturn \in {"exit0", "exit1"}) =>
      /\ started = Candidates
      /\ runReturn = "exit1" <=> failed # {}

\* C2, amended: the candidates are run in order, each at most once; a run
\* that returns a failing exit code (builder failure, unknown option,
\* missing builder package) does not stop the loop, so unless a run throws
\* every candidate is run exactly once and the exit code is 1 exactly when
\* a run failed; a run that throws ends the loop, with exit code 1 for a
\* schema validation exception and the error passed on for any other.
C2_AllRunUnlessThrown ==
    /\ (multiTarget /\ ~singleRun) => IsPrefix(started, queue)
    /\ MultiRunEnded =>
         /\ queue = Candidates
         /\ (~caught /\ runReturn # "throw") =>
               /\ started = Candidates
               /\ runReturn \in {"exit0", "exit1"}
               /\ runReturn = "exit1" <=> failed # {}
         /\ caught => runReturn = "exit1" /\ started[Len(started)] \in failed

C2_Witness ==
    /\ MultiRunEnded
    /\ ~caught
    /\ started = <<"app", "lib", "e2e">>
    /\ failed = {"lib"}
    /\ runReturn = "exit1"
    /\ Len(handles) = 3

Unstopped == {i \in 1..Len(handles) : handles[i].state # "stopped"}

\* C3: the runs of a multi-target command are started in candidate order,
\* and the run of one candidate is not started before the run of the one
\* before it delivered its result and was stopped: no two runs are ever in
\* progress at once.
C3_Sequential ==
    (multiTarget /\ ~singleRun) =>
      /\ IsPrefix(started, queue)
      /\ pc \in {"runSingleTarget", "output", "stop"} => queue = Candidates
      /\ \A i \in 1..Len(handles) : handles[i].project \in AsSet(started)
      /\ \A i \in 1..(Len(handles) - 1) : handles[i].state = "stopped"
      /\ pc = "runSingleTarget" => Unstopped = {}
      /\ Cardinality(Unstopped) <= 1

C3_Witness ==
    /\ multiTarget
    /\ ~singleRun
    /\ pc = "output"
    /\ Len(handles) = 3
    /\ handles[1].state = "stopped"
    /\ handles[2].state = "stopped"
    /\ handles[3].state = "running"
    /\ started = <<"app", "lib", "e2e">>

\* the default project if it is a candidate, else the only candidate
DefaultThenSingle(names, defaultProjectName) ==
    IF Truthy(defaultProjectName) /\ defaultProjectName \in AsSet(names)
    THEN defaultProjectName
    ELSE IF Len(names) = 1 THEN names[1] ELSE Undefined

\* the only candidate, else the default project if it is a candidate
SingleThenDefault(names, defaultProjectName) ==
    IF Len(names) = 1 THEN names[1]
    ELSE IF Truthy(defaultProjectName) /\ defaultProjectName \in AsSet(names)
         THEN defaultProjectName ELSE Undefined

\* C4: a single-target command left without a project by the explicit
\* option and by disambiguation takes the default project if it is a
\* candidate, else the only candidate, else returns without an error code
\* on a help request, else fails with exit code 1; the choice does not
\* depend on which of the first two rules is tried first.
C4_FallbackOrder ==
    [][(pc = "fallback" /\ Falsy(projectName) /\ ~multiTarget) =>
         LET choice == DefaultThenSingle(Candidates, workspace.defaultProject)
         IN /\ choice = SingleThenDefault(Candidates, workspace.defaultProject)
            /\ IF choice # Undefined
               THEN /\ projectName' = choice
                    /\ options'.project = choice
                    /\ initReturn' = "pending"
               ELSE IF options.help
               THEN initReturn' = "void" /\ log' = log
               ELSE initReturn' = "exit1" /\ pc' = "done"]_vars

C4_Witness ==
    /\ pc = "describe"
    /\ ~multiTarget
    /\ commandLeftovers = <<>>
    /\ workspace.defaultProject = "lib"
    /\ targetProjectNames = <<"app", "lib", "e2e">>
    /\ projectName = "lib"
    /\ options.project = "lib"

\* no workspace, or a fixed-target command whose named project is not in
\* the workspace or whose target no project declares
ConfigurationError ==
    \/ ~workspace.loaded
    \/ /\ Truthy(target)
       /\ \/ /\ Truthy(options.project)
             /\ options.project \notin AsSet(workspace.projects)
          \/ \A p \in AsSet(workspace.projects) : target \notin workspace.targets[p]

C6_SingleCandidateSkips ==
    (pc # "initialize" /\ Truthy(target) /\ Len(Candidates) = 1) =>
      /\ pc # "disambiguate"
      /\ DOMAIN leftoverMap = {}
      /\ options.leftovers = commandLeftovers

\* initialize got past the choice of the project
ProjectSettled ==
    \/ pc \in {"describe", "run", "runSingleTarget", "output", "stop"}
    \/ pc = "done" /\ runReturn # "pending"

\* C6, amended: with exactly one candidate and no explicit project, that
\* candidate is the project initialize settles on for every trailing token
\* list (a multi-target command may leave the project unset and then runs
\* that candidate alone), but disambiguation is not skipped: trailing
\* tokens are parsed against the candidate's builder schema, and the
\* override list is either passed on as it is or loses one token equal to
\* the candidate's name.
C6_SingleCandidateChosen ==
    (Truthy(target) /\ Len(Candidates) = 1 /\ ProjectSettled) =>
      /\ \/ options.project = Candidates[1]
         \/ multiTarget /\ options.project = Undefined
      /\ \A i \in 1..Len(started) : started[i] = Candidates[1]
      /\ \/ options.leftovers = commandLeftovers
         \/ \E k \in 0..(Len(commandLeftovers) - 1) :
               /\ Text(commandLeftovers[k + 1]) = Candidates[1]
               /\ options.leftovers = Splice(commandLeftovers, k)

C6_Witness ==
    /\ pc = "describe"
    /\ Candidates = <<"lib">>
    /\ commandLeftovers = <<WatchFalse, LibToken>>
    /\ DOMAIN leftoverMap = {"lib"}
    /\ options.leftovers = <<WatchFalse>>
    /\ options.project = "lib"

\* the loop over the candidates of a multi-target command with trailing
\* tokens and no explicit project ran to its end
MultiDisambiguated ==
    /\ multiTarget
    /\ pc \notin {"initialize", "disambiguate"}
    /\ idx > Len(targetProjectNames)
    /\ idx > 0

BuildersOfCandidates == {workspace.builder[p] : p \in AsSet(Candidates)}

\* C7: in a multi-target command with trailing tokens and no explicit
\* project, candidates with more than one builder and a narrowed set of
\* more than one project end initialize with exit code 1 and nothing run;
\* a narrowed set of exactly one project raises no conflict.
C7_AmbiguityConflict ==
    MultiDisambiguated =>
      /\ (Cardinality(BuildersOfCandidates) > 1
          /\ Cardinality(potentialProjectNames) > 1) =>
            /\ pc = "done"
            /\ initReturn = "exit1"
            /\ InLog(ConflictMessage)
            /\ started = <<>>
            /\ handles = <<>>
      /\ Cardinality(potentialProjectNames) = 1 =>
            /\ ~InLog(ConflictMessage)
            /\ projectName = ResolvedName

C7_Witness ==
    /\ MultiDisambiguated
    /\ targetProjectNames = <<"app", "lib">>
    /\ builderNames = {"karma", "jest"}
    /\ potentialProjectNames = {"app", "lib"}
    /\ initReturn = "exit1"
    /\ InLog(ConflictMessage)

\* the text of a token up to its first '='
UpToEquals(tok) ==
    Text(SubSeq(tok, 1, IF FirstOf(tok, "=") = 0 THEN Len(tok)
                        ELSE FirstOf(tok, "=") - 1))

\* C8: when runSingleTarget resolves its builder and the override tokens
\* leave leftovers the schema does not allow, every leftover is reported as
\* "Unknown option: '<token up to =>'", the run returns 1 and nothing is
\* scheduled ('--foo=1' gives "Unknown option: '--foo'"); with a schema
\* that allows additional properties the leftovers do not fail the run.
C8_UnknownOption ==
    [][(pc = "runSingleTarget"
        /\ HasBuilderFor(workspace, queue[runIdx], targetSpec.target)
        /\ runReturn' # "throw"
        /\ \A i \in 1..Len(log') : i > Len(log) =>
              log'[i] \notin {"Could not find the 'karma' builder's node package.",
                              "Could not find the 'jest' builder's node package."}) =>
         LET builder == workspace.builder[queue[runIdx]]
             parsed == ParseArguments(options.leftovers, OptionDefsOf(builder))
             extra == parsed.leftovers
         IN IF extra # <<>> /\ ~AdditionalPropertiesOf(builder)
            THEN /\ handles' = handles
                 /\ Len(log') = Len(log) + Len(extra)
                 /\ \A i \in 1..Len(extra) :
                       log'[Len(log) + i] =
                          "Unknown option: '" \o UpToEquals(extra[i]) \o "'"
                 /\ \A i \in 1..Len(extra) :
                       extra[i] = FooOne =>
                          log'[Len(log) + i] = "Unknown option: '--foo'"
                 /\ queue[runIdx] \in failed'
                 /\ singleRun => runReturn' = "exit1"
                 /\ ~singleRun => result' = 1
            ELSE /\ Len(handles') = Len(handles) + 1
                 /\ handles'[Len(handles')].overrides = parsed
                 /\ log' = log
                 /\ failed' = failed]_vars

C8_Witness ==
    /\ pc = "done"
    /\ singleRun
    /\ options.leftovers = <<FooOne>>
    /\ handles = <<>>
    /\ runReturn = "exit1"
    /\ InLog("Unknown option: '--foo'")

----------------------------------------------------------------------------
(* Claims about the narrowing loop and the token removal of initialize. *)

\* the orders in which the candidates of S can be processed
Orders(S) ==
    {order \in [1..Cardinality(S) -> S] :
        \A i, j \in 1..Cardinality(S) : i # j => order[i] # order[j]}

\* the texts of the leftover tokens recorded for a candidate
LeftoverTexts(name) ==
    LET builderLeftovers == leftoverMap[name].parsedOptions.leftovers
    IN {Text(builderLeftovers[i]) : i \in 1..Len(builderLeftovers)}

RECURSIVE NarrowInOrder(_, _, _)
\* the loop's narrowing, over the recorded leftovers, in the given order
NarrowInOrder(order, i, potential) ==
    IF i > Len(order) THEN potential
    ELSE NarrowInOrder(order, i + 1,
            Narrow(potential, leftoverMap[order[i]].parsedOptions.leftovers))

\* the loop over the candidates has processed every one of them
LoopEnded == pc = "disambiguate" /\ idx > Len(targetProjectNames)

\* C11: with the leftover lists of the candidates fixed, the narrowed set
\* the loop ends with is the same for every order of the candidates and is
\* the set of candidate names found in every candidate's leftovers; no pass
\* of the loop adds a name to the set.
C11_OrderIndependent ==
    [][/\ pc = "disambiguate" => potentialProjectNames' \subseteq potentialProjectNames
       /\ LoopEnded =>
            /\ DOMAIN leftoverMap = AsSet(targetProjectNames)
            /\ potentialProjectNames =
                  {n \in AsSet(targetProjectNames) :
                      \A p \in AsSet(targetProjectNames) : n \in LeftoverTexts(p)}
            /\ \A order \in Orders(AsSet(targetProjectNames)) :
                  NarrowInOrder(order, 1, AsSet(targetProjectNames))
                     = potentialProjectNames]_vars

C11_Witness ==
    /\ pc = "fallback"
    /\ targetProjectNames = <<"app", "lib">>
    /\ commandLeftovers = <<NameFlag, LibToken, LibToken>>
    /\ leftoverMap["app"].parsedOptions.leftovers = <<LibToken>>
    /\ leftoverMap["lib"].parsedOptions.leftovers = commandLeftovers
    /\ potentialProjectNames = {"lib"}

\* removing position k (from 0) of the list leaves the structured options
\* parsed for the project's builder as they were
StableRemoval(tokens, k, name) ==
    LET optionDefs == OptionDefsOf(workspace.builder[name])
    IN ParseArguments(Splice(tokens, k), optionDefs).options
          = ParseArguments(tokens, optionDefs).options

\* out is the list with one token removed that names the project and whose
\* removal is stable, the other tokens in their order
OneNameRemoved(tokens, out, name) ==
    \E k \in 0..(Len(tokens) - 1) :
       /\ Text(tokens[k + 1]) = name
       /\ StableRemoval(tokens, k, name)
       /\ Len(out) = Len(tokens) - 1
       /\ \A i \in 1..Len(out) : out[i] = tokens[IF i <= k THEN i ELSE i + 1]

NoStableOccurrence(tokens, name) ==
    \A k \in 0..(Len(tokens) - 1) :
       Text(tokens[k + 1]) = name => ~StableRemoval(tokens, k, name)

\* C12: the override list passed on is the trailing token list itself, or
\* that list without one token that equals the project resolved by
\* disambiguation and whose removal leaves that project's parsed options
\* unchanged, the other tokens in their order; it is passed on unmodified
\* when no occurrence of the name is stable or no project was resolved by
\* disambiguation.
C12_AtMostOneRemoval ==
    [][/\ \/ options'.leftovers = options.leftovers
          \/ /\ LoopEnded
             /\ Cardinality(potentialProjectNames) = 1
             /\ projectName' = ResolvedName
             /\ OneNameRemoved(options.leftovers, options'.leftovers, ResolvedName)
       /\ (\/ ~LoopEnded
           \/ Cardinality(potentialProjectNames) # 1
           \/ NoStableOccurrence(options.leftovers, ResolvedName)) =>
             options'.leftovers = options.leftovers
       /\ (Truthy(target)
           /\ pc \in {"disambiguate", "fallback", "describe", "run",
                      "runSingleTarget", "output", "stop"}) =>
             \/ options.leftovers = commandLeftovers
             \/ /\ DisambiguationResolved
                /\ OneNameRemoved(commandLeftovers, options.leftovers, projectName)]_vars

C12_Witness ==
    /\ pc = "fallback"
    /\ workspace.builder["lib"] = "karma"
    /\ commandLeftovers = <<NameFlag, LibToken, FooOne, LibToken>>
    /\ projectName = "lib"
    /\ options.leftovers = <<NameFlag, LibToken, FooOne>>

----------------------------------------------------------------------------
(* Claims about initialize and run together. *)

\* initialize of a fixed-target, single-target command returned without an
\* exit code, and the invocation asks for no help
InitializedSingle ==
    /\ Truthy(target)
    /\ ~multiTarget
    /\ initReturn = "void"
    /\ ~options.help

\* C13: once initialize of a fixed-target, single-target command returns
\* without an error code (no help request), options.project is a project of
\* the workspace that declares the target, and run makes exactly one run,
\* of that project: it takes the single-run branch, never the loop over
\* the candidates nor the error of getProjectNamesByTarget.
C13_OneRunOfResolvedProject ==
    InitializedSingle =>
      /\ options.project \in AsSet(workspace.projects)
      /\ target \in workspace.targets[options.project]
      /\ options.project \in AsSet(targetProjectNames)
      /\ pc \in {"run", "runSingleTarget", "output", "stop", "done"}
      /\ pc # "run" =>
            /\ singleRun
            /\ targetSpec.project = options.project
            /\ targetSpec.target = target
            /\ queue = <<options.project>>
      /\ Len(started) <= 1
      /\ \A i \in 1..Len(started) : started[i] = options.project
      /\ Len(handles) <= 1
      /\ \A i \in 1..Len(handles) : handles[i].project = options.project
      /\ pc \in {"output", "stop", "done"} => started = <<options.project>>
      /\ pc \in {"output", "stop"} => Len(handles) = 1
      /\ pc = "done" => runReturn # "pending"

C13_Witness ==
    /\ InitializedSingle
    /\ pc = "done"
    /\ runReturn = "exit0"
    /\ targetProjectNames = <<"app", "lib", "e2e">>
    /\ workspace.defaultProject = "app"
    /\ commandLeftovers = <<WatchFalse, LibToken>>
    /\ options.leftovers = <<WatchFalse>>
    /\ options.project = "lib"
    /\ started = <<"lib">>
    /\ Len(handles) = 1
    /\ handles[1].project = "lib"
    /\ handles[1].state = "stopped"

====
